---------------------------- MODULE Spec2Model ----------------------------
(***************************************************************************)
(* A model of the black-hole (minesweeper) console game of src/main.go:    *)
(* field construction, random black-hole placement, adjacency counting,    *)
(* the command parser, the command loop with its loss and win exits, and   *)
(* the recursive flood reveal.                                             *)
(*                                                                         *)
(* Cells are kept in a flat array indexed from 0, as in the source, and    *)
(* every cell access goes through the index the source computes, so that   *)
(* an index outside the array is a Go run-time panic in the model too.     *)
(***************************************************************************)
EXTENDS Integers, Sequences, FiniteSets, TLC

VARIABLES
    pc,             \* where the process is: a step of main, or how it ended
    args,           \* the flags given to main: fieldWidth, fieldHeight, blackHoleQuantity
    field,          \* the playField (Width, Height, BlackHoleQuantity, Cells)
    attempts,       \* local of addBlackHoles
    blackHoles,     \* local of addBlackHoles
    collisions,     \* history: draws of addBlackHoles that hit a black hole
    line,           \* the text handed to parseUserCommand
    cmd,            \* what parseUserCommand returned: width, height, marked, err
    stack,          \* the call stack of updateFieldVisibility (frames, top last)
    previousCells,  \* the map of positions shared by one top-level flood
    calls,          \* history: the positions updateFieldVisibility was invoked on
    before,         \* history: the cells when the operation under study began
    runs            \* history: how many times addAdjacentBlackHoles has run

vars == <<pc, args, field, attempts, blackHoles, collisions, line, cmd,
          stack, previousCells, calls, before, runs>>

---------------------------------------------------------------------------
(* Bounds of the model.                                                    *)

\* The whole program is explored on every field of at most MaxCells cells.
MaxCells == 3
\* Adjacency is studied on every field of at most AdjMaxDim x AdjMaxDim.
AdjMaxDim == 3
\* addAdjacentBlackHoles is applied at most MaxRuns times in a row.
MaxRuns == 2
\* The flood reveal is studied on fields of at most FloodMaxCells cells, no
\* side longer than FloodMaxDim, holding at most FloodMaxMines black holes.
FloodMaxCells == 9
FloodMaxDim == 4
FloodMaxMines == 2
\* The parser is studied on every field of at most ParseMaxDim x ParseMaxDim.
ParseMaxDim == 2

\* maxAttempts := field.BlackHoleQuantity * 100
RetryFactor == 100

Min(a, b) == IF a < b THEN a ELSE b

---------------------------------------------------------------------------
(* The data model.                                                         *)

\* playCell's zero value, as make([]playCell, n) creates it.
ZeroCell ==
    [IsVisible |-> FALSE, IsBlackHole |-> FALSE, IsMarked |-> FALSE,
     IsExploded |-> FALSE, AdjucentBlackHoleQuantity |-> 0]

\* The nil *playField main holds before (or without) a field.
NilField ==
    [Width |-> 0, Height |-> 0, BlackHoleQuantity |-> 0, Cells |-> <<>>]

\* Whether field.Cells[i] is inside the slice; outside it Go panics.
InRange(f, i) == i \in DOMAIN f.Cells

\* AdjucentBlackHoleQuantity++ on an int8.
Inc8(v) == IF v = 127 THEN -128 ELSE v + 1

\* A constructor that refuses a field filled with black holes.
NewPlayFieldErrorFullRefused(fieldWidth, fieldHeight, blackHoleQuantity) ==
    IF fieldWidth <= 0 THEN "field width should be higher than 0"
    ELSE IF fieldHeight <= 0 THEN "field height should be higher than 0"
    ELSE IF blackHoleQuantity < 1 THEN "black hole quantity should be higher than 0"
    ELSE IF blackHoleQuantity >= fieldWidth * fieldHeight
         THEN "black hole quantity should NOT be higher than the multiplication"
    ELSE "nil"

\* The error (or nil) and the field NewPlayField returns.
NewPlayFieldError(fieldWidth, fieldHeight, blackHoleQuantity) ==
    IF fieldWidth <= 0 THEN "field width should be higher than 0"
    ELSE IF fieldHeight <= 0 THEN "field height should be higher than 0"
    ELSE IF blackHoleQuantity < 1 THEN "black hole quantity should be higher than 0"
    ELSE IF blackHoleQuantity > fieldWidth * fieldHeight
         THEN "black hole quantity should NOT be higher than the multiplication"
    ELSE "nil"

NewPlayField(fieldWidth, fieldHeight, blackHoleQuantity) ==
    IF NewPlayFieldError(fieldWidth, fieldHeight, blackHoleQuantity) # "nil"
    THEN NilField
    ELSE [Width |-> fieldWidth, Height |-> fieldHeight,
          BlackHoleQuantity |-> blackHoleQuantity,
          Cells |-> [i \in 0 .. (fieldWidth * fieldHeight - 1) |-> ZeroCell]]

---------------------------------------------------------------------------
(* Text: a line is a sequence of one-character strings.                    *)

DigitChars == <<"0", "1", "2", "3", "4", "5", "6", "7", "8", "9">>

IsDigit(c) == \E d \in 1 .. 10 : DigitChars[d] = c

DigitVal(c) == (CHOOSE d \in 1 .. 10 : DigitChars[d] = c) - 1

\* A split on blanks only, as strings.Split(s, " ") would make it.
IsSpaceOnlyBlank(c) == c = " "

\* unicode.IsSpace on the characters the model's lines hold.
IsSpace(c) == c \in {" ", "\t", "\n", "\r"}

\* strings.TrimSpace: s from its first to its last non-space character.
TrimSpace(s) ==
    LET keep == {i \in 1 .. Len(s) : ~IsSpace(s[i])}
    IN  IF keep = {} THEN <<>>
        ELSE SubSeq(s, CHOOSE i \in keep : \A j \in keep : i <= j,
                       CHOOSE i \in keep : \A j \in keep : i >= j)

\* strings.Fields: the maximal runs of non-space characters, in order.
RECURSIVE FieldsFrom(_, _, _, _)
FieldsFrom(s, i, cur, acc) ==
    IF i > Len(s)
    THEN IF cur = <<>> THEN acc ELSE Append(acc, cur)
    ELSE IF IsSpace(s[i])
         THEN FieldsFrom(s, i + 1, <<>>, IF cur = <<>> THEN acc ELSE Append(acc, cur))
         ELSE FieldsFrom(s, i + 1, Append(cur, s[i]), acc)

Fields(s) == FieldsFrom(s, 1, <<>>, <<>>)

\* The decimal value of a run of digits.
RECURSIVE DigitsValue(_, _)
DigitsValue(digits, n) ==
    IF digits = <<>> THEN n
    ELSE DigitsValue(Tail(digits), n * 10 + DigitVal(Head(digits)))

\* strconv.Atoi: an optional sign, then one or more decimal digits.
Atoi(tok) ==
    LET signed == tok # <<>> /\ tok[1] \in {"-", "+"}
        digits == IF signed THEN Tail(tok) ELSE tok
    IN  IF digits = <<>> \/ \E i \in 1 .. Len(digits) : ~IsDigit(digits[i])
        THEN [err |-> TRUE, val |-> 0]
        ELSE [err |-> FALSE,
              val |-> IF tok[1] = "-" THEN 0 - DigitsValue(digits, 0)
                      ELSE DigitsValue(digits, 0)]

TokTrue == <<"t", "r", "u", "e">>
TokFalse == <<"f", "a", "l", "s", "e">>
TokOne == <<"1">>
TokZero == <<"0">>

\* What parseUserCommand returns; err is "nil" or the kind of error.
ParseResult(width, height, marked, err) ==
    [width |-> width, height |-> height, marked |-> marked, err |-> err]

ParseFail(err) == ParseResult(0, 0, FALSE, err)

\* The range check of a parsed coordinate against its bound.
CoordTooBig(v, bound) == v >= bound

parseUserCommand(f, commandParameters) ==
    LET commandArguments == Fields(TrimSpace(commandParameters))
        commandArgumentsLen == Len(commandArguments)
    IN  IF commandArgumentsLen < 2 THEN ParseFail("not enough arguments")
        ELSE IF commandArgumentsLen = 2 \/ commandArgumentsLen = 3
        THEN LET w == Atoi(commandArguments[1])
                 h == Atoi(commandArguments[2])
             IN  IF w.err THEN ParseFail("width not an int")
                 ELSE IF CoordTooBig(w.val, f.Width) THEN ParseFail("width out of range")
                 ELSE IF h.err THEN ParseFail("height not an int")
                 ELSE IF CoordTooBig(h.val, f.Height) THEN ParseFail("height out of range")
                 ELSE IF commandArgumentsLen = 3
                 THEN IF commandArguments[3] = TokTrue \/ commandArguments[3] = TokOne
                      THEN ParseResult(w.val, h.val, TRUE, "nil")
                      ELSE IF commandArguments[3] = TokFalse \/ commandArguments[3] = TokZero
                      THEN ParseResult(w.val, h.val, FALSE, "nil")
                      ELSE ParseFail("mark not a bool")
                 ELSE ParseResult(w.val, h.val, FALSE, "nil")
        ELSE ParseFail("too many arguments")

\* No command parsed yet.
NoCmd == ParseFail("none")

---------------------------------------------------------------------------
(* The lines the model types.                                              *)

\* The decimal text of an integer.
RECURSIVE NatText(_)
NatText(n) ==
    IF n < 10 THEN <<DigitChars[n + 1]>>
    ELSE NatText(n \div 10) \o <<DigitChars[(n % 10) + 1]>>

IntText(n) == IF n < 0 THEN <<"-">> \o NatText(0 - n) ELSE NatText(n)

\* Tokens joined by single spaces, ended by the newline ReadString keeps.
RECURSIVE JoinTokens(_)
JoinTokens(toks) ==
    IF toks = <<>> THEN <<"\n">>
    ELSE IF Len(toks) = 1 THEN toks[1] \o <<"\n">>
    ELSE toks[1] \o <<" ">> \o JoinTokens(Tail(toks))

---------------------------------------------------------------------------
(* The field's operations.  An operation that indexes field.Cells returns  *)
(* the field together with ok, FALSE when the index was outside the slice  *)
(* (the Go run-time panics there and the process dies).                    *)

Outcome(ok, f) == [ok |-> ok, f |-> f]

\* rowBias + width, the index every operation computes.
CellIndex(f, width, height) == height * f.Width + width

\* The side of the neighbour sum one adjacency test contributes.
AdjacentAt(f, guard, pos) == IF guard /\ f.Cells[pos].IsBlackHole THEN 1 ELSE 0

\* A slip: the Right-Down test reads the Left-Down neighbour.
AdjacentIncrementsSlip(f, width, height) ==
    LET currentPos == CellIndex(f, width, height)
    IN    AdjacentAt(f, width > 0, currentPos - 1)
        + AdjacentAt(f, width < f.Width - 1, currentPos + 1)
        + AdjacentAt(f, height > 0, currentPos - f.Width)
        + AdjacentAt(f, height < f.Height - 1, currentPos + f.Width)
        + AdjacentAt(f, width > 0 /\ height > 0, currentPos - f.Width - 1)
        + AdjacentAt(f, width > 0 /\ height < f.Height - 1, currentPos + f.Width - 1)
        + AdjacentAt(f, width < f.Width - 1 /\ height > 0, currentPos - f.Width + 1)
        + AdjacentAt(f, width < f.Width - 1 /\ height < f.Height - 1,
                     currentPos + f.Width - 1)

\* The eight tests of addAdjacentBlackHoles on the cell at (width, height).
AdjacentIncrements(f, width, height) ==
    LET currentPos == CellIndex(f, width, height)
    IN    AdjacentAt(f, width > 0, currentPos - 1)
        + AdjacentAt(f, width < f.Width - 1, currentPos + 1)
        + AdjacentAt(f, height > 0, currentPos - f.Width)
        + AdjacentAt(f, height < f.Height - 1, currentPos + f.Width)
        + AdjacentAt(f, width > 0 /\ height > 0, currentPos - f.Width - 1)
        + AdjacentAt(f, width > 0 /\ height < f.Height - 1, currentPos + f.Width - 1)
        + AdjacentAt(f, width < f.Width - 1 /\ height > 0, currentPos - f.Width + 1)
        + AdjacentAt(f, width < f.Width - 1 /\ height < f.Height - 1,
                     currentPos + f.Width + 1)

\* v incremented n times as an int8.
RECURSIVE Inc8Times(_, _)
Inc8Times(v, n) == IF n = 0 THEN v ELSE Inc8Times(Inc8(v), n - 1)

\* addAdjacentBlackHoles: every cell's counter is incremented once for each
\* neighbouring black hole, starting from the value it holds.
addAdjacentBlackHoles(f) ==
    [f EXCEPT !.Cells =
        [i \in DOMAIN f.Cells |->
            [f.Cells[i] EXCEPT !.AdjucentBlackHoleQuantity =
                Inc8Times(@, AdjacentIncrements(f, i % f.Width, i \div f.Width))]]]

\* updateFieldCell
\* An updateFieldCell that leaves a marked cell hidden on a reveal.
updateFieldCellKeepsMarkedHidden(f, width, height, marked) ==
    LET pos == CellIndex(f, width, height)
    IN  IF ~InRange(f, pos) THEN Outcome(FALSE, f)
        ELSE IF marked
             THEN Outcome(TRUE, [f EXCEPT !.Cells[pos].IsMarked = TRUE])
             ELSE IF f.Cells[pos].IsMarked THEN Outcome(TRUE, f)
             ELSE Outcome(TRUE, [f EXCEPT !.Cells[pos].IsVisible = TRUE])

updateFieldCell(f, width, height, marked) ==
    LET pos == CellIndex(f, width, height)
    IN  IF ~InRange(f, pos) THEN Outcome(FALSE, f)
        ELSE IF marked
             THEN Outcome(TRUE, [f EXCEPT !.Cells[pos].IsMarked = TRUE])
             ELSE Outcome(TRUE, [f EXCEPT !.Cells[pos].IsVisible = TRUE])

\* A checkFieldBlackHole that does not look at IsVisible.
BlackHoleHitIgnoringVisible(f, width, height) ==
    LET currentCell == f.Cells[CellIndex(f, width, height)]
    IN  currentCell.IsBlackHole

\* checkFieldBlackHole: the value it returns, and the field it leaves.
checkFieldBlackHoleResult(f, width, height) ==
    LET currentCell == f.Cells[CellIndex(f, width, height)]
    IN  currentCell.IsVisible /\ currentCell.IsBlackHole

checkFieldBlackHole(f, width, height) ==
    IF checkFieldBlackHoleResult(f, width, height)
    THEN [f EXCEPT !.Cells[CellIndex(f, width, height)].IsExploded = TRUE]
    ELSE f

\* The bound of the outer loop of main's "force total visibility".
ForceVisibleRows(f) == f.Width

\* main's loop after an explosion: updateFieldCell(w, h, false) for h below
\* the outer bound and w below Width, in that order, from the k-th pair on.
RECURSIVE ForceVisibleFrom(_, _)
ForceVisibleFrom(o, k) ==
    IF ~o.ok \/ k >= ForceVisibleRows(o.f) * o.f.Width THEN o
    ELSE ForceVisibleFrom(
            updateFieldCell(o.f, k % o.f.Width, k \div o.f.Width, FALSE), k + 1)

ForceVisible(f) == ForceVisibleFrom(Outcome(TRUE, f), 0)

\* A slip: a marked cell does not deny the win.
DeniesWinIgnoringMark(currentCell) ==
    ~currentCell.IsBlackHole /\ ~currentCell.IsVisible

\* The test checkWinResult makes of one cell: TRUE when it denies the win.
DeniesWin(currentCell) ==
    ~currentCell.IsBlackHole /\ (~currentCell.IsVisible \/ currentCell.IsMarked)

\* checkWinResult: scans the cells row by row and stops at the first denial.
RECURSIVE checkWinFrom(_, _)
checkWinFrom(f, k) ==
    IF k >= f.Height * f.Width THEN TRUE
    ELSE IF DeniesWin(f.Cells[k]) THEN FALSE
    ELSE checkWinFrom(f, k + 1)

checkWinResult(f) == checkWinFrom(f, 0)

---------------------------------------------------------------------------
(* updateFieldVisibility as a function: the recursion, run to its end.     *)
(* A flood state is the field, the shared previousCells and ok.            *)

FloodState(ok, f, prev) == [ok |-> ok, f |-> f, prev |-> prev]

\* A slip: the count is not tested, so the flood runs on through numbered cells.
ExpandsAlways(f, currentPos) == TRUE

\* The test that opens the four blocks: the current cell counts no black hole.
Expands(f, currentPos) == f.Cells[currentPos].AdjucentBlackHoleQuantity = 0

\* One of the four blocks (Left, Right, Up, Down) of a call on (width,
\* height): its bounds guard, the index of the neighbour it reads and the
\* position it records and recurses on.
Neighbour(f, width, height, dir) ==
    LET currentPos == CellIndex(f, width, height)
    IN  CASE dir = "Left" ->
               [guard |-> width > 0, pos |-> currentPos - 1,
                width |-> width - 1, height |-> height]
          [] dir = "Right" ->
               [guard |-> width < f.Width - 1, pos |-> currentPos + 1,
                width |-> width + 1, height |-> height]
          [] dir = "Up" ->
               [guard |-> height > 0, pos |-> currentPos - f.Width,
                width |-> width, height |-> height - 1]
          [] dir = "Down" ->
               [guard |-> height < f.Height - 1, pos |-> currentPos + f.Width,
                width |-> width, height |-> height + 1]

\* A slip: previousCells is not consulted.
ShouldRecurseAlways(prev, p) == TRUE

\* Whether a revealed neighbour is recursed into: it is not in previousCells.
ShouldRecurse(prev, p) == p \notin prev

RECURSIVE updateFieldVisibility(_, _, _)
RECURSIVE VisitNeighbour(_, _)

\* One block: the guard, the black-hole test of the neighbour, its reveal,
\* and the recursion unless its position was recorded before.
VisitNeighbour(s, n) ==
    IF ~s.ok \/ ~n.guard THEN s
    ELSE IF ~InRange(s.f, n.pos) THEN [s EXCEPT !.ok = FALSE]
    ELSE IF s.f.Cells[n.pos].IsBlackHole THEN s
    ELSE LET shown == [s EXCEPT !.f.Cells[n.pos].IsVisible = TRUE]
         IN  IF ShouldRecurse(shown.prev, <<n.width, n.height>>)
             THEN updateFieldVisibility(
                     [shown EXCEPT !.prev = @ \cup {<<n.width, n.height>>}],
                     n.width, n.height)
             ELSE shown

updateFieldVisibility(s, width, height) ==
    LET currentPos == CellIndex(s.f, width, height)
    IN  IF ~s.ok THEN s
        ELSE IF ~InRange(s.f, currentPos) THEN [s EXCEPT !.ok = FALSE]
        ELSE IF ~Expands(s.f, currentPos) THEN s
        ELSE LET left == VisitNeighbour(s, Neighbour(s.f, width, height, "Left"))
                 right == VisitNeighbour(left, Neighbour(s.f, width, height, "Right"))
                 up == VisitNeighbour(right, Neighbour(s.f, width, height, "Up"))
             IN  VisitNeighbour(up, Neighbour(s.f, width, height, "Down"))

\* main's call: updateFieldVisibility(width, height, map[playCellPos]struct{}{})
FloodFrom(f, width, height) ==
    updateFieldVisibility(FloodState(TRUE, f, {}), width, height)

---------------------------------------------------------------------------
(* One turn of main's loop on an accepted command, as a function: the      *)
(* field it leaves and where the process is afterwards.                    *)

After(where, f) == [pc |-> where, f |-> f]

\* A loop that runs the flood reveal after a mark as well.
FloodsAfterEveryCommand(marked) == TRUE

\* Whether main runs the flood reveal after a command.
FloodsAfter(marked) == ~marked

Turn(f, c) ==
    LET cell == updateFieldCell(f, c.width, c.height, c.marked)
    IN  IF ~cell.ok THEN After("panic in updateFieldCell", f)
        ELSE IF checkFieldBlackHoleResult(cell.f, c.width, c.height)
        THEN LET all == ForceVisible(checkFieldBlackHole(cell.f, c.width, c.height))
             IN  IF all.ok THEN After("lost", all.f)
                 ELSE After("panic in force visibility", all.f)
        ELSE LET flood == IF FloodsAfter(c.marked)
                          THEN FloodFrom(cell.f, c.width, c.height)
                          ELSE FloodState(TRUE, cell.f, {})
             IN  IF ~flood.ok THEN After("panic in updateFieldVisibility", flood.f)
                 ELSE IF checkWinResult(flood.f) THEN After("won", flood.f)
                 ELSE After("play", flood.f)

---------------------------------------------------------------------------
(* The program.                                                            *)

\* The flags: any integers, here those whose field has at most MaxCells cells.
Flags ==
    {a \in [fieldWidth : -1 .. MaxCells, fieldHeight : -1 .. MaxCells,
            blackHoleQuantity : -1 .. MaxCells + 1] :
        a.fieldWidth <= 0 \/ a.fieldHeight <= 0
            \/ a.fieldWidth * a.fieldHeight <= MaxCells}

Junk == <<"x">>

\* The token sequences typed at the prompt of a field: every pair of integers
\* from -1 to one past the last column and row, bare and with a mark, and a
\* line of each kind the parser rejects.
GameTokens(f) ==
    LET ws == {IntText(n) : n \in -1 .. f.Width}
        hs == {IntText(n) : n \in -1 .. f.Height}
    IN  {<<>>, <<TokZero>>, <<TokZero, TokZero, TokZero, TokZero>>,
         <<Junk, TokZero>>, <<TokZero, Junk>>, <<TokZero, TokZero, Junk>>,
         <<TokZero, TokZero, TokFalse>>, <<TokZero, TokZero, TokOne>>}
            \cup {<<a, b>> : a \in ws, b \in hs}
            \cup {<<a, b, TokTrue>> : a \in ws, b \in hs}

GameLines(f) == {JoinTokens(t) : t \in GameTokens(f)}

Init ==
    /\ pc = "NewPlayField"
    /\ args \in Flags
    /\ field = NilField
    /\ attempts = 0
    /\ blackHoles = 0
    /\ collisions = 0
    /\ line = <<>>
    /\ cmd = NoCmd
    /\ stack = <<>>
    /\ previousCells = {}
    /\ calls = <<>>
    /\ before = <<>>
    /\ runs = 0

\* main: NewPlayField, and the exit on its error.
Construct ==
    /\ pc = "NewPlayField"
    /\ field' = NewPlayField(args.fieldWidth, args.fieldHeight, args.blackHoleQuantity)
    /\ pc' = IF NewPlayFieldError(args.fieldWidth, args.fieldHeight,
                                  args.blackHoleQuantity) # "nil"
             THEN "config error" ELSE "addBlackHoles"
    /\ UNCHANGED <<args, attempts, blackHoles, collisions, line, cmd, stack,
                   previousCells, calls, before, runs>>

\* The budget the loop compares attempts with.
AttemptBudget(f) == f.BlackHoleQuantity * RetryFactor

\* A slip: the draw is never tested, so a cell drawn twice is counted twice.
DrawIsFreeAlways(f, blackHolePos) == TRUE

\* The test of a draw: whether the cell drawn holds no black hole yet.
DrawIsFree(f, blackHolePos) == ~f.Cells[blackHolePos].IsBlackHole

\* addBlackHoles: one iteration of the loop, drawing blackHolePos.  attempts
\* is incremented where the source increments it: with a black hole added.
AddBlackHole(blackHolePos) ==
    /\ pc = "addBlackHoles"
    /\ blackHoles < field.BlackHoleQuantity
    /\ IF DrawIsFree(field, blackHolePos)
       THEN /\ field' = [field EXCEPT !.Cells[blackHolePos].IsBlackHole = TRUE]
            /\ blackHoles' = blackHoles + 1
            /\ attempts' = attempts + 1
            /\ UNCHANGED <<pc, collisions>>
       ELSE /\ pc' = IF attempts >= AttemptBudget(field)
                     THEN "panic: could not generate" ELSE pc
            /\ collisions' = Min(collisions + 1, AttemptBudget(field) + 1)
            /\ UNCHANGED <<field, blackHoles, attempts>>
    /\ UNCHANGED <<args, line, cmd, stack, previousCells, calls, before, runs>>

\* addBlackHoles: the loop's exit and the return to main.
AddBlackHolesReturn ==
    /\ pc = "addBlackHoles"
    /\ ~(blackHoles < field.BlackHoleQuantity)
    /\ pc' = "addAdjacentBlackHoles"
    /\ attempts' = 0
    /\ blackHoles' = 0
    /\ UNCHANGED <<args, field, collisions, line, cmd, stack, previousCells,
                   calls, before, runs>>

\* main: addAdjacentBlackHoles, then the first printField.
AddAdjacent ==
    /\ pc = "addAdjacentBlackHoles"
    /\ field' = addAdjacentBlackHoles(field)
    /\ runs' = runs + 1
    /\ collisions' = 0
    /\ pc' = "play"
    /\ UNCHANGED <<args, attempts, blackHoles, line, cmd, stack,
                   previousCells, calls, before>>

\* A loop pass that acts on the values returned with an error.
RejectedNever(c) == FALSE

\* main's test of the error parseUserCommand returns.
Rejected(c) == c.err # "nil"

\* main: one pass of the command loop on the line read.
Command(commandParameters) ==
    /\ pc = "play"
    /\ LET c == parseUserCommand(field, commandParameters)
           t == IF Rejected(c) THEN After("play", field) ELSE Turn(field, c)
       IN  /\ cmd' = c
           /\ field' = t.f
           /\ pc' = t.pc
    /\ UNCHANGED <<args, attempts, blackHoles, collisions, line, stack,
                   previousCells, calls, before, runs>>

Next ==
    \/ Construct
    \/ \E blackHolePos \in 0 .. (field.Width * field.Height - 1) :
          AddBlackHole(blackHolePos)
    \/ AddBlackHolesReturn
    \/ AddAdjacent
    \/ \E commandParameters \in GameLines(field) : Command(commandParameters)

Spec == Init /\ [][Next]_vars

---------------------------------------------------------------------------
(* addAdjacentBlackHoles on its own: every field of at most AdjMaxDim by   *)
(* AdjMaxDim cells with black holes placed, counted up to MaxRuns times.   *)

\* A field as addBlackHoles leaves it, with its black holes at mines.
PlacedField(W, H, mines) ==
    [Width |-> W, Height |-> H, BlackHoleQuantity |-> Cardinality(mines),
     Cells |-> [i \in 0 .. (W * H - 1) |->
                  [ZeroCell EXCEPT !.IsBlackHole = (i \in mines)]]]

InitAdj ==
    /\ pc = "adjacency"
    /\ \E W \in 1 .. AdjMaxDim, H \in 1 .. AdjMaxDim :
         \E mines \in SUBSET (0 .. (W * H - 1)) :
            /\ mines # {}
            /\ field = PlacedField(W, H, mines)
            /\ args = [fieldWidth |-> W, fieldHeight |-> H,
                       blackHoleQuantity |-> Cardinality(mines)]
    /\ attempts = 0
    /\ blackHoles = 0
    /\ collisions = 0
    /\ line = <<>>
    /\ cmd = NoCmd
    /\ stack = <<>>
    /\ previousCells = {}
    /\ calls = <<>>
    /\ before = <<>>
    /\ runs = 0

Recount ==
    /\ pc = "adjacency"
    /\ runs < MaxRuns
    /\ field' = addAdjacentBlackHoles(field)
    /\ runs' = runs + 1
    /\ UNCHANGED <<pc, args, attempts, blackHoles, collisions, line, cmd, stack,
                   previousCells, calls, before>>

NextAdj == Recount

SpecAdj == InitAdj /\ [][NextAdj]_vars

---------------------------------------------------------------------------
(* updateFieldVisibility step by step: the recursion with its call stack.  *)
(* A frame is a call's (width, height) and the block it is at.  The field  *)
(* is one a game reaches: black holes placed and counted, no cell or one    *)
(* cell marked, and the cell of an accepted reveal command (typed with its *)
(* own column, or with column -1) just made visible.                       *)

Frame(width, height, at) == [width |-> width, height |-> height, at |-> at]

Top == stack[Len(stack)]

\* The block after a block, and "return" after the last.
NextBlock(dir) ==
    CASE dir = "Left" -> "Right"
      [] dir = "Right" -> "Up"
      [] dir = "Up" -> "Down"
      [] dir = "Down" -> "return"

\* The stack with its top frame moved to block at.
Advance(at) == [stack EXCEPT ![Len(stack)].at = at]

InitFlood ==
    /\ pc = "flood"
    /\ \E W \in 1 .. FloodMaxDim, H \in 1 .. FloodMaxDim :
         /\ W * H <= FloodMaxCells
         /\ \E mines \in SUBSET (0 .. (W * H - 1)), w \in -1 .. (W - 1),
              h \in 0 .. (H - 1) :
              /\ mines # {}
              /\ Cardinality(mines) <= FloodMaxMines
              /\ (h * W + w) \in (0 .. (W * H - 1)) \ mines
              /\ \E marked \in SUBSET (0 .. (W * H - 1)) :
                   /\ Cardinality(marked) <= 1
                   /\ LET counted == addAdjacentBlackHoles(PlacedField(W, H, mines))
                          g == [counted EXCEPT
                                  !.Cells = [i \in DOMAIN @ |->
                                      [@[i] EXCEPT !.IsMarked = (i \in marked)]]]
                      IN  field = updateFieldCell(g, w, h, FALSE).f
                   /\ args = [fieldWidth |-> W, fieldHeight |-> H,
                              blackHoleQuantity |-> Cardinality(mines)]
                   /\ cmd = ParseResult(w, h, FALSE, "nil")
                   /\ stack = <<Frame(w, h, "enter")>>
    /\ before = field.Cells
    /\ attempts = 0
    /\ blackHoles = 0
    /\ collisions = 0
    /\ line = <<>>
    /\ previousCells = {}
    /\ calls = <<>>
    /\ runs = 1

\* The top call returns: to its caller, or to main when it was the first.
Pop ==
    /\ stack' = SubSeq(stack, 1, Len(stack) - 1)
    /\ pc' = IF Len(stack) = 1 THEN "flooded" ELSE pc

\* A call begins: it indexes its cell and tests the count.
FloodEnter ==
    /\ pc = "flood"
    /\ Top.at = "enter"
    /\ calls' = Append(calls, <<Top.width, Top.height>>)
    /\ LET currentPos == CellIndex(field, Top.width, Top.height)
       IN  IF ~InRange(field, currentPos)
           THEN pc' = "panic in updateFieldVisibility" /\ UNCHANGED stack
           ELSE IF ~Expands(field, currentPos) THEN Pop
           ELSE stack' = Advance("Left") /\ UNCHANGED pc
    /\ UNCHANGED <<args, field, attempts, blackHoles, collisions, line, cmd,
                   previousCells, before, runs>>

\* The top call runs one of its four blocks.
FloodBlock(dir) ==
    /\ pc = "flood"
    /\ Top.at = dir
    /\ LET n == Neighbour(field, Top.width, Top.height, dir)
       IN  IF ~n.guard
           THEN /\ stack' = Advance(NextBlock(dir))
                /\ UNCHANGED <<pc, field, previousCells>>
           ELSE IF ~InRange(field, n.pos)
           THEN /\ pc' = "panic in updateFieldVisibility"
                /\ UNCHANGED <<stack, field, previousCells>>
           ELSE IF field.Cells[n.pos].IsBlackHole
           THEN /\ stack' = Advance(NextBlock(dir))
                /\ UNCHANGED <<pc, field, previousCells>>
           ELSE /\ field' = [field EXCEPT !.Cells[n.pos].IsVisible = TRUE]
                /\ IF ShouldRecurse(previousCells, <<n.width, n.height>>)
                   THEN /\ previousCells' = previousCells \cup {<<n.width, n.height>>}
                        /\ stack' = Append(Advance(NextBlock(dir)),
                                           Frame(n.width, n.height, "enter"))
                   ELSE /\ stack' = Advance(NextBlock(dir))
                        /\ UNCHANGED previousCells
                /\ UNCHANGED pc
    /\ UNCHANGED <<args, attempts, blackHoles, collisions, line, cmd, calls,
                   before, runs>>

FloodLeft == FloodBlock("Left")
FloodRight == FloodBlock("Right")
FloodUp == FloodBlock("Up")
FloodDown == FloodBlock("Down")

\* The top call has run its four blocks.
FloodReturn ==
    /\ pc = "flood"
    /\ Top.at = "return"
    /\ Pop
    /\ UNCHANGED <<args, field, attempts, blackHoles, collisions, line, cmd,
                   previousCells, calls, before, runs>>

NextFlood ==
    \/ FloodEnter
    \/ FloodLeft
    \/ FloodRight
    \/ FloodUp
    \/ FloodDown
    \/ FloodReturn

\* The process runs on: a call in progress takes its next step.
SpecFlood == InitFlood /\ [][NextFlood]_vars /\ WF_vars(NextFlood)

---------------------------------------------------------------------------
(* parseUserCommand on its own: a field of any size up to ParseMaxDim in   *)
(* each direction, and a line of up to five tokens laid out either with    *)
(* single spaces or with leading, doubled and trailing white space.        *)

TokUpperTrue == <<"T", "r", "u", "e">>
TokPlusOne == <<"+", "1">>
TokDoubleZero == <<"0", "0">>

\* The tokens of the lines of up to three tokens.
ParseTokens ==
    {IntText(n) : n \in -1 .. ParseMaxDim}
        \cup {TokTrue, TokFalse, TokUpperTrue, Junk, TokPlusOne, TokDoubleZero}

\* Tokens with a tab and a space before each, and a space and "\r\n" last.
RECURSIVE RaggedJoin(_)
RaggedJoin(toks) ==
    IF toks = <<>> THEN <<" ", "\r", "\n">>
    ELSE <<"\t", " ">> \o toks[1] \o RaggedJoin(Tail(toks))

ParseLines ==
    LET short == UNION {[1 .. n -> ParseTokens] : n \in 0 .. 3}
        long  == UNION {[1 .. n -> {TokZero, TokTrue}] : n \in 4 .. 5}
    IN  {JoinTokens(t) : t \in short \cup long}
            \cup {RaggedJoin(t) : t \in short \cup long}

InitParse ==
    /\ pc = "parseUserCommand"
    /\ \E W \in 1 .. ParseMaxDim, H \in 1 .. ParseMaxDim :
          /\ field = NewPlayField(W, H, 1)
          /\ args = [fieldWidth |-> W, fieldHeight |-> H, blackHoleQuantity |-> 1]
    /\ line \in ParseLines
    /\ attempts = 0
    /\ blackHoles = 0
    /\ collisions = 0
    /\ cmd = NoCmd
    /\ stack = <<>>
    /\ previousCells = {}
    /\ calls = <<>>
    /\ before = <<>>
    /\ runs = 0

\* main: the call of parseUserCommand on the line read.
ParseLine ==
    /\ pc = "parseUserCommand"
    /\ cmd' = parseUserCommand(field, line)
    /\ pc' = "parsed"
    /\ UNCHANGED <<args, field, attempts, blackHoles, collisions, line, stack,
                   previousCells, calls, before, runs>>

NextParse == ParseLine

SpecParse == InitParse /\ [][NextParse]_vars

---------------------------------------------------------------------------
(* Vocabulary of the properties.                                           *)

\* The flat indices of the field's cells and of its black holes.
CellIds(f) == DOMAIN f.Cells
Mines(f) == {i \in CellIds(f) : f.Cells[i].IsBlackHole}
Visible(f) == {i \in CellIds(f) : f.Cells[i].IsVisible}
Marked(f) == {i \in CellIds(f) : f.Cells[i].IsMarked}

\* Column and row of a flat index.
Col(f, i) == i % f.Width
Row(f, i) == i \div f.Width

\* The cells within one step of i in both directions, i excluded.
Neighbours8(f, i) ==
    {j \in CellIds(f) \ {i} :
        /\ Col(f, j) - Col(f, i) \in {-1, 0, 1}
        /\ Row(f, j) - Row(f, i) \in {-1, 0, 1}}

\* The cells sharing a side with i.
Neighbours4(f, i) ==
    {j \in Neighbours8(f, i) : Col(f, j) = Col(f, i) \/ Row(f, j) = Row(f, i)}

\* main has left addBlackHoles behind.
PlacementReturned ==
    pc \in {"addAdjacentBlackHoles", "play", "lost", "won",
            "panic in updateFieldCell", "panic in force visibility",
            "panic in updateFieldVisibility"}

---------------------------------------------------------------------------
(* C1: whenever addBlackHoles has returned, exactly BlackHoleQuantity      *)
(* cells are black holes, whatever the draws were; and while it runs, the  *)
(* black holes on the field are exactly the ones it has counted, so a      *)
(* colliding draw neither adds nor loses one.                              *)
C1_ExactlyMineCount ==
    /\ PlacementReturned => Cardinality(Mines(field)) = field.BlackHoleQuantity
    /\ pc = "addBlackHoles" => Cardinality(Mines(field)) = blackHoles

\* addBlackHoles has just returned after at least one colliding draw.
C1_Witness ==
    /\ pc = "addAdjacentBlackHoles"
    /\ collisions > 0
    /\ field.BlackHoleQuantity >= 2
    /\ Cardinality(Mines(field)) = field.BlackHoleQuantity

(* C2: placement ends within its retry budget: one run of addBlackHoles    *)
(* makes at most BlackHoleQuantity * 100 colliding draws before it either  *)
(* returns or aborts with "could not generate".                            *)
C2_RetryBudgetEnforced == collisions <= AttemptBudget(field)

(* C3: after addAdjacentBlackHoles has run once on a field with its black  *)
(* holes placed, every cell's AdjucentBlackHoleQuantity is the number of   *)
(* black holes among its neighbours inside the field.                      *)
C3_AdjacencyExact ==
    runs = 1 =>
        \A i \in CellIds(field) :
            field.Cells[i].AdjucentBlackHoleQuantity
                = Cardinality(Neighbours8(field, i) \cap Mines(field))

\* A counted field holding a cell whose eight neighbours are all black holes.
C3_Witness ==
    /\ pc = "adjacency"
    /\ runs = 1
    /\ \E i \in CellIds(field) :
          /\ Cardinality(Neighbours8(field, i)) = 8
          /\ field.Cells[i].AdjucentBlackHoleQuantity = 8

(* C4: addAdjacentBlackHoles is idempotent: run again on a field whose     *)
(* counts are computed, it leaves every cell as it was.                    *)
C4_RecountChangesNothing ==
    [][(runs >= 1 /\ runs' = runs + 1) => field'.Cells = field.Cells]_vars

---------------------------------------------------------------------------
(* The flood reveal.                                                       *)

\* The field as it was when the operation under study began.
FieldBefore == [field EXCEPT !.Cells = before]

\* The flood was started on a cell of the field by its own coordinates.
StartsOnCell ==
    /\ cmd.width \in 0 .. (field.Width - 1)
    /\ cmd.height \in 0 .. (field.Height - 1)

StartCell == CellIndex(field, cmd.width, cmd.height)

\* The zero-count cells joined to the cells of S by steps across a side.
RECURSIVE ZeroRegion(_, _)
ZeroRegion(f, S) ==
    LET more == {j \in CellIds(f) :
                    /\ f.Cells[j].AdjucentBlackHoleQuantity = 0
                    /\ \E i \in S : j \in Neighbours4(f, i)}
    IN  IF more \subseteq S THEN S ELSE ZeroRegion(f, S \cup more)

\* What a flood started on cell i is to make visible: the region of i when
\* i counts no black hole, and the cells without a black hole beside it.
FloodReveals(f, i) ==
    IF f.Cells[i].AdjucentBlackHoleQuantity # 0 THEN {}
    ELSE LET region == ZeroRegion(f, {i})
         IN  region \cup {j \in CellIds(f) \ Mines(f) :
                            \E r \in region : j \in Neighbours4(f, r)}

\* The step-by-step recursion and the function agree on every finished flood.
FloodAgrees ==
    LET r == FloodFrom(FieldBefore, cmd.width, cmd.height)
    IN  /\ pc = "flooded" => r.ok /\ r.f = field /\ r.prev = previousCells
        /\ pc = "panic in updateFieldVisibility" => ~r.ok

(* C5: a top-level updateFieldVisibility on a cell that counts no black    *)
(* hole makes visible exactly the cells of its zero-count region (joined   *)
(* across sides) and the cells without a black hole beside that region,    *)
(* marked or not; it makes no other cell and no black hole visible and     *)
(* changes nothing else.  On a cell with a non-zero count it changes       *)
(* nothing.                                                                *)
C5_FloodRevealsRegionAndBorder ==
    (pc = "flooded" /\ StartsOnCell) =>
        /\ Visible(field) = Visible(FieldBefore) \cup FloodReveals(FieldBefore, StartCell)
        /\ Visible(field) \cap Mines(field) = {}
        /\ \A i \in CellIds(field) :
              field.Cells[i] = [before[i] EXCEPT !.IsVisible = field.Cells[i].IsVisible]
        /\ before[StartCell].AdjucentBlackHoleQuantity # 0 => field.Cells = before

\* A finished flood from a zero-count cell that revealed a marked cell and
\* left hidden a cell without a black hole that touches the start only at a
\* corner.
C5_Witness ==
    /\ pc = "flooded"
    /\ StartsOnCell
    /\ before[StartCell].AdjucentBlackHoleQuantity = 0
    /\ \E i \in CellIds(field) :
          /\ field.Cells[i].IsMarked
          /\ field.Cells[i].IsVisible
          /\ ~before[i].IsVisible
    /\ \E j \in (Neighbours8(field, StartCell) \ Neighbours4(field, StartCell)) :
          /\ ~field.Cells[j].IsBlackHole
          /\ ~field.Cells[j].IsVisible

\* The positions a flood can record: those of the cells, and the column
\* left of the field that a command with width -1 starts in.
FloodPositions == (-1 .. (field.Width - 1)) \X (0 .. (field.Height - 1))

(* C6: every top-level updateFieldVisibility started with an empty         *)
(* previousCells terminates: it makes at most one call more than there     *)
(* are positions to record, and it comes to its end (it returns to main,   *)
(* or the process dies on an index outside the cells).                     *)
C6_FloodTerminates ==
    /\ [](Len(calls) <= Cardinality(FloodPositions) + 1)
    /\ [](Len(stack) <= Cardinality(FloodPositions) + 1)
    /\ <>(pc # "flood")

\* A finished flood over a region with a cycle: four zero-count cells in a
\* square, all of them called.
C6_Witness ==
    /\ pc = "flooded"
    /\ \E i \in CellIds(field) :
          /\ Col(field, i) < field.Width - 1
          /\ Row(field, i) < field.Height - 1
          /\ \A j \in {i, i + 1, i + field.Width, i + field.Width + 1} :
                /\ field.Cells[j].AdjucentBlackHoleQuantity = 0
                /\ \E k \in 1 .. Len(calls) :
                      calls[k] = <<Col(field, j), Row(field, j)>>

---------------------------------------------------------------------------
(* The command loop.                                                       *)

\* The cells without a black hole.
Safe(f) == CellIds(f) \ Mines(f)

(* C7: when a reveal command explodes a black hole, every cell of the      *)
(* field is made visible before the last printField and the exit, whatever *)
(* the field's shape, and the loop that does it indexes no cell outside    *)
(* the field.                                                              *)
C7_LossRevealsWholeField ==
    /\ pc = "lost" => Visible(field) = CellIds(field)
    /\ pc # "panic in force visibility"

(* C8: parseUserCommand succeeds only with coordinates inside the field:   *)
(* 0 <= width < Width and 0 <= height < Height.                            *)
C8_AcceptedInsideField ==
    cmd.err = "nil" =>
        /\ cmd.width \in 0 .. (field.Width - 1)
        /\ cmd.height \in 0 .. (field.Height - 1)

\* Every cell without a black hole is visible and unmarked.
AllSafeShownUnmarked(f) ==
    \A i \in Safe(f) : f.Cells[i].IsVisible /\ ~f.Cells[i].IsMarked

(* C9: checkWinResult is true iff every cell without a black hole is       *)
(* visible and unmarked, whatever the state of the black-hole cells; so    *)
(* the game ends won exactly when that holds after an accepted command     *)
(* that exploded nothing.                                                  *)
C9_WinIffAllSafeShownUnmarked ==
    /\ PlacementReturned => (checkWinResult(field) <=> AllSafeShownUnmarked(field))
    /\ pc = "won" => AllSafeShownUnmarked(field)
    /\ (pc = "play" /\ cmd.err = "nil") => ~AllSafeShownUnmarked(field)

\* A game won with a black hole marked and hidden, on a field that also
\* holds cells without a black hole.
C9_Witness ==
    /\ pc = "won"
    /\ Safe(field) # {}
    /\ \E i \in Mines(field) : field.Cells[i].IsMarked /\ ~field.Cells[i].IsVisible

\* The commands parseUserCommand accepts among the lines typed.
AcceptedCommands(f) ==
    {c \in {parseUserCommand(f, l) : l \in GameLines(f)} : c.err = "nil"}

\* The outcomes (field and place in main) that sequences of accepted
\* commands lead to from the outcomes of S.
RECURSIVE Outcomes(_)
Outcomes(S) ==
    LET more == UNION {{Turn(o.f, c) : c \in AcceptedCommands(o.f)} :
                          o \in {x \in S : x.pc = "play"}}
    IN  IF more \subseteq S THEN S ELSE Outcomes(S \cup more)

\* Some sequence of accepted commands wins the game from field f.
Winnable(f) == \E o \in Outcomes({After("play", f)}) : o.pc = "won"

(* C10: after a cell without a black hole has been marked the game can     *)
(* still be won: some sequence of accepted commands clears the mark,       *)
(* reveals the cell and leads to checkWinResult being true.                *)
C10_MarkedSafeCellStaysWinnable ==
    (pc = "play" /\ Marked(field) \cap Safe(field) # {}) => Winnable(field)

---------------------------------------------------------------------------
(* C11: checkFieldBlackHole(x, y) returns true exactly when the cell at    *)
(* (x, y) is visible and a black hole; when it returns true it sets        *)
(* IsExploded of that cell and changes nothing else; when it returns false *)
(* it changes nothing; called again on the cell it exploded it returns     *)
(* true again and leaves the field as it is.  Checked for every cell of    *)
(* every field the game reaches (the fields left by a lost game included). *)
C11_ExplodesVisibleBlackHoleOnly ==
    PlacementReturned =>
        \A i \in CellIds(field) :
            LET w      == Col(field, i)
                h      == Row(field, i)
                result == checkFieldBlackHoleResult(field, w, h)
                after  == checkFieldBlackHole(field, w, h)
            IN  /\ result <=> (i \in Visible(field) /\ i \in Mines(field))
                /\ result =>
                     /\ after.Cells[i].IsExploded
                     /\ \A j \in CellIds(field) \ {i} :
                            after.Cells[j] = field.Cells[j]
                     /\ after.Cells[i] =
                            [field.Cells[i] EXCEPT !.IsExploded = TRUE]
                     /\ [after EXCEPT !.Cells = field.Cells] = field
                     /\ checkFieldBlackHoleResult(after, w, h)
                     /\ checkFieldBlackHole(after, w, h) = after
                /\ ~result => after = field

(* A lost game on a field with a second black hole and a safe cell: the    *)
(* call returned true on the exploded cell, and returns false on the       *)
(* others.                                                                 *)
C11_Witness ==
    /\ pc = "lost"
    /\ \E i \in Mines(field) : field.Cells[i].IsExploded
    /\ Safe(field) # {}
    /\ Cardinality(Mines(field)) >= 2

---------------------------------------------------------------------------
(* C12: a line that parseUserCommand rejects (too few or too many tokens,  *)
(* a coordinate that is not an integer or is beyond the field, a third     *)
(* token that is not a mark value) leaves every cell of the field as it    *)
(* was and does not end the game: the loop goes on to the next line.       *)
C12_RejectedLineChangesNothing ==
    [][(pc = "play" /\ cmd'.err # "nil")
          => (field' = field /\ pc' = "play")]_vars

(* A rejected line in the middle of a game: some cells are already shown.  *)
C12_Witness ==
    /\ pc = "play"
    /\ cmd.err \notin {"nil", "none"}
    /\ Visible(field) # {}
    /\ Marked(field) # {}

---------------------------------------------------------------------------
(* C13: NewPlayField(width, height, mineCount) returns an error and no     *)
(* field exactly when width <= 0, height <= 0, mineCount < 1 or            *)
(* mineCount > width * height; otherwise it returns a field of             *)
(* width * height cells, each one hidden, unmarked, unexploded, without a  *)
(* black hole and with an adjacent count of 0.  A 1 x 1 field with one     *)
(* black hole is constructed.                                              *)
C13_ConstructorValidates ==
    LET w == args.fieldWidth
        h == args.fieldHeight
        q == args.blackHoleQuantity
        refused == w <= 0 \/ h <= 0 \/ q < 1 \/ q > w * h
    IN  /\ pc # "NewPlayField" => (pc = "config error" <=> refused)
        /\ pc = "config error" => field = NilField
        /\ (pc = "addBlackHoles" /\ blackHoles = 0) =>
              /\ field.Width = w /\ field.Height = h
              /\ field.BlackHoleQuantity = q
              /\ CellIds(field) = 0 .. (w * h - 1)
              /\ Cardinality(CellIds(field)) = w * h
              /\ \A i \in CellIds(field) :
                    /\ ~field.Cells[i].IsVisible
                    /\ ~field.Cells[i].IsMarked
                    /\ ~field.Cells[i].IsExploded
                    /\ ~field.Cells[i].IsBlackHole
                    /\ field.Cells[i].AdjucentBlackHoleQuantity = 0

(* The 1 x 1 field with one black hole, as NewPlayField returned it.       *)
C13_Witness ==
    /\ pc = "addBlackHoles" /\ blackHoles = 0
    /\ field.Width = 1 /\ field.Height = 1 /\ field.BlackHoleQuantity = 1
    /\ Cardinality(CellIds(field)) = 1

---------------------------------------------------------------------------
(* The tokens of a line, said without the scan strings.Fields makes: a     *)
(* token starts at a non-blank character that is first or follows a blank, *)
(* and runs to the last character before the next blank or the end.        *)

Blank(c) == c \in {" ", "\t", "\r", "\n"}

TokenStarts(s) ==
    {i \in 1 .. Len(s) : ~Blank(s[i]) /\ (i = 1 \/ Blank(s[i - 1]))}

TokenCount(s) == Cardinality(TokenStarts(s))

Token(s, n) ==
    LET i == CHOOSE k \in TokenStarts(s) :
                 Cardinality({m \in TokenStarts(s) : m < k}) = n - 1
        j == CHOOSE k \in i .. Len(s) :
                 /\ \A m \in i .. k : ~Blank(s[m])
                 /\ (k = Len(s) \/ Blank(s[k + 1]))
    IN  SubSeq(s, i, j)

\* The ways the lines write the integer n.
Spellings(n) ==
    IF n < 0 THEN {IntText(n)}
    ELSE {IntText(n), <<"+">> \o IntText(n), <<"0">> \o IntText(n)}

\* The coordinates below bound that tok writes: one or none.
CoordOf(tok, bound) == {n \in 0 .. (bound - 1) : tok \in Spellings(n)}

(* C14: parseUserCommand classifies a line by its number of white-space    *)
(* separated tokens: none or one is an error; four or more is an error;    *)
(* two tokens that are coordinates of the field give a command with        *)
(* mark = false; three tokens whose first two are coordinates of the field *)
(* succeed exactly when the third is "true" or "1" (mark = true) or        *)
(* "false" or "0" (mark = false); on success the width and height returned *)
(* are the integers the first and the second token write.                  *)
C14_ParseClassifiesByTokenCount ==
    pc = "parsed" =>
        LET n == TokenCount(line)
            xs == IF n >= 2 THEN CoordOf(Token(line, 1), field.Width) ELSE {}
            ys == IF n >= 2 THEN CoordOf(Token(line, 2), field.Height) ELSE {}
        IN  /\ n <= 1 => cmd.err # "nil"
            /\ n >= 4 => cmd.err # "nil"
            /\ n = 2 =>
                 \A x \in xs, y \in ys : cmd = ParseResult(x, y, FALSE, "nil")
            /\ n = 3 =>
                 \A x \in xs, y \in ys :
                     LET third == Token(line, 3)
                     IN  /\ cmd.err = "nil"
                               <=> third \in {TokTrue, TokOne, TokFalse, TokZero}
                         /\ third \in {TokTrue, TokOne}
                               => cmd = ParseResult(x, y, TRUE, "nil")
                         /\ third \in {TokFalse, TokZero}
                               => cmd = ParseResult(x, y, FALSE, "nil")
            /\ cmd.err = "nil" =>
                 /\ n \in {2, 3}
                 /\ Token(line, 1) \in Spellings(cmd.width)
                 /\ Token(line, 2) \in Spellings(cmd.height)

(* A mark command of three tokens laid out with tabs, doubled white space  *)
(* and "\r\n", and parsed to (1, 0, true).                                 *)
C14_Witness ==
    /\ pc = "parsed"
    /\ TokenCount(line) = 3
    /\ Blank(line[1])
    /\ cmd = ParseResult(1, 0, TRUE, "nil")

---------------------------------------------------------------------------
Exploded(f) == {i \in CellIds(f) : f.Cells[i].IsExploded}

(* C15: in every state the program reaches, after any commands and after   *)
(* the reveal of the whole field that follows an explosion, a cell with    *)
(* IsExploded is visible and holds a black hole; and IsExploded, once set, *)
(* is never cleared: no step clears it, and the cell a command exploded is *)
(* still exploded after the loop that reveals the field.                   *)
C15_ExplodedIsVisibleBlackHole ==
    /\ [](Exploded(field) \subseteq (Visible(field) \cap Mines(field)))
    /\ [](pc \in {"lost", "panic in force visibility"}
            => CellIndex(field, cmd.width, cmd.height) \in Exploded(field))
    /\ [][\A i \in Exploded(field) :
              i \in CellIds(field') /\ field'.Cells[i].IsExploded]_vars

(* A lost game after the reveal of the whole field: the exploded black     *)
(* hole, other cells, all visible.                                         *)
C15_Witness ==
    /\ pc = "lost"
    /\ Exploded(field) # {}
    /\ Visible(field) = CellIds(field)
    /\ Cardinality(CellIds(field)) >= 2
    /\ Marked(field) # {}

---------------------------------------------------------------------------
\* A pass of main's loop on an accepted reveal command that explodes nothing.
RevealPass ==
    /\ pc = "play" /\ pc' \in {"play", "won"}
    /\ cmd'.err = "nil" /\ ~cmd'.marked

---------------------------------------------------------------------------
\* A pass of main's loop on an accepted mark command.
MarkPass == pc = "play" /\ cmd'.err = "nil" /\ cmd'.marked

(* C17: an accepted mark command at (x, y) changes only the IsMarked flag  *)
(* of the cell at (x, y): IsVisible of every cell stays as it was, no      *)
(* flood reveal runs, and IsBlackHole, IsExploded and the adjacent count   *)
(* of every cell stay as they were.  Stated for every accepted mark        *)
(* command: the one cell whose flag is set is Cells[y * Width + x], which  *)
(* is the cell at column x and row y whenever (x, y) is in the field.      *)
C17_MarkChangesOnlyTheMark ==
    [][MarkPass =>
         LET i == CellIndex(field, cmd'.width, cmd'.height)
         IN  /\ CellIds(field') = CellIds(field)
             /\ \A j \in CellIds(field) :
                   field'.Cells[j] =
                       IF j = i THEN [field.Cells[j] EXCEPT !.IsMarked = TRUE]
                       ELSE field.Cells[j]
             /\ Visible(field') = Visible(field)
             /\ Mines(field') = Mines(field)
             /\ Exploded(field') = Exploded(field)
             /\ (/\ cmd'.width \in 0 .. (field.Width - 1)
                 /\ cmd'.height \in 0 .. (field.Height - 1)) =>
                   /\ i \in Marked(field')
                   /\ Col(field, i) = cmd'.width
                   /\ Row(field, i) = cmd'.height]_vars

(* After a mark on a hidden cell that counts no black hole and has a       *)
(* hidden neighbour without a black hole: a flood reveal from the marked   *)
(* cell would have shown that neighbour.                                   *)
C17_Witness ==
    /\ pc = "play"
    /\ cmd.err = "nil" /\ cmd.marked
    /\ StartsOnCell
    /\ StartCell \in Marked(field) \ Visible(field)
    /\ field.Cells[StartCell].AdjucentBlackHoleQuantity = 0
    /\ \E j \in Neighbours4(field, StartCell) : j \in Safe(field) \ Visible(field)

---------------------------------------------------------------------------
(* C18: within one top-level flood reveal the set of visited positions     *)
(* prevents revisiting: updateFieldVisibility is invoked on no position of *)
(* the field, the starting position included, more than once.              *)
C18_NoPositionProcessedTwice ==
    \A a, b \in 1 .. Len(calls) : a # b => calls[a] # calls[b]

---------------------------------------------------------------------------
\* The last command was accepted and is a reveal that addresses a black hole.
RevealedBlackHole ==
    /\ cmd.err = "nil" /\ ~cmd.marked
    /\ InRange(field, CellIndex(field, cmd.width, cmd.height))
    /\ CellIndex(field, cmd.width, cmd.height) \in Mines(field)

(* C19: while the game accepts commands no black hole is visible; hence a  *)
(* mark command never ends the game in a loss, and the game is lost        *)
(* exactly on the turn of a reveal command whose addressed cell holds a    *)
(* black hole.                                                             *)
C19_LostExactlyOnRevealedBlackHole ==
    /\ pc = "play" => Visible(field) \cap Mines(field) = {}
    /\ pc = "lost" => ~cmd.marked
    /\ pc = "lost" <=> RevealedBlackHole

---------------------------------------------------------------------------
\* Every cell of the field holds a black hole.
AllBlackHoles == PlacementReturned /\ Mines(field) = CellIds(field)

(* C20: on a field whose every cell holds a black hole (the 1 x 1 field    *)
(* with one black hole, for one) the first accepted mark command ends the  *)
(* game with a win although no cell has been revealed, checkWinResult      *)
(* being true of such a field after every accepted command that explodes   *)
(* nothing; and every accepted reveal command ends the game with a loss.   *)
C20_AllBlackHolesMarkWinsRevealLoses ==
    (AllBlackHoles /\ cmd.err = "nil") =>
        /\ cmd.marked => (pc = "won" /\ Visible(field) = {})
        /\ ~cmd.marked => pc = "lost"

============================================================================
